---- MODULE Spec2Model ----
(***************************************************************************)
(* Model of src/app.py: a Streamlit page (main) that is re-run from the    *)
(* top on every UI event of a browser session.  One render of the page is  *)
(* a sequence of blocking remote calls to the platform (DESC STAGE, CREATE *)
(* STAGE, put_stream, PARSE_DOCUMENT, AI_COMPLETE, LIST,                   *)
(* GET_PRESIGNED_URL, get_stream).  Each action below is the code from one *)
(* remote call up to the next one: the call, its outcome (the platform may *)
(* answer or raise), and everything the script does with it.               *)
(*                                                                         *)
(* Spec     one browser session using every widget of the page.           *)
(* SpecRace NumSessions browser sessions that only load the page (no file, *)
(*          no button), interleaved at the remote calls.                   *)
(***************************************************************************)
EXTENDS Integers, Sequences, FiniteSets

\* Number of concurrent browser sessions (each has its own script run).
NumSessions == 2

Sessions == 1..NumSessions

\* st.sidebar.text_input default, and the other names a user may type.
DefaultStage == "MY_INT_STAGE"
StageInputs == {DefaultStage, "DOCS", ""}

\* A name the platform accepts in DESC STAGE / CREATE STAGE.
ValidStageName(n) == n # ""

\* File names are sequences of tokens; "/" is the path separator.
NoFile == <<>>
FileNames == {<<"report.pdf">>, <<"dir", "/", "notes.txt">>}

\* st.slider(min_value=1, max_value=7, value=1)
SliderMin == 1
SliderMax == 7
SliderDefault == 1
Slider == SliderMin..SliderMax

\* expiration_days * 24 * 60 * 60
ExpirationSecondsInMinutes(d) == d * 24 * 60
ExpirationSeconds(d) == d * 24 * 60 * 60

\* put_stream(..., auto_compress=False, overwrite=True): the object is stored
\* under the path given; with auto_compress the platform appends ".gz".
auto_compress == FALSE
StoredName(n) == IF auto_compress THEN n \o <<".gz">> ELSE n

\* A row of LIST @stage: '<stage>/<path>'.
ListName(stage, path) == <<stage, "/">> \o path
ListRows(stage, objs) == {ListName(stage, p) : p \in objs}

\* row['name'].split('/', 1)[1] if '/' in row['name'] else row['name']
FirstSlash(name) ==
    CHOOSE i \in 1..Len(name) :
        name[i] = "/" /\ \A j \in 1..(i - 1) : name[j] # "/"
HasSlash(name) == \E i \in 1..Len(name) : name[i] = "/"
StripHead(name) ==
    IF HasSlash(name) THEN SubSeq(name, 1, FirstSlash(name) - 1) ELSE name
StripPrefix(name) ==
    IF HasSlash(name) THEN SubSeq(name, FirstSlash(name) + 1, Len(name)) ELSE name

VARIABLES
    stages,             \* remote: the stages that exist
    files,              \* remote: stage -> paths of the objects stored in it
    pc,                 \* session -> position of its script run
    ui,                 \* session -> widget state [stage, file, question, event, days]
    calls,              \* session -> remote calls issued in the current render
    shown,              \* session -> elements rendered in the current render
    desc,               \* session -> outcome of DESC STAGE in the current render
    create,             \* session -> outcome of CREATE STAGE in the current render
    put,                \* session -> outcome of put_stream in the current render
    parsed_content,     \* session -> local of main, line 155
    answer,             \* session -> local of main, line 156
    file_names,         \* session -> local of main, lines 175 and 225
    selected_file,      \* session -> local of main, lines 181 and 229
    expiration_seconds, \* session -> local of main, line 196
    prev_creates        \* session -> CREATE calls of the previous call of the Guard

vars == <<stages, files, pc, ui, calls, shown, desc, create, put, parsed_content,
          answer, file_names, selected_file, expiration_seconds, prev_creates>>

remote == <<stages, files>>
guardRes == <<desc, create>>
uploadLocals == <<put, parsed_content, answer>>
urlLocals == <<file_names, selected_file, expiration_seconds>>

EndPcs == {"done", "stopped", "crashed"}

InitUi == [stage |-> DefaultStage, file |-> NoFile, question |-> FALSE,
           event |-> "load", days |-> SliderDefault]

Init ==
    /\ stages \in SUBSET {n \in StageInputs : ValidStageName(n)}
    /\ files = [n \in StageInputs |-> {}]
    /\ pc = [s \in Sessions |-> "idle"]
    /\ ui = [s \in Sessions |-> InitUi]
    /\ calls = [s \in Sessions |-> <<>>]
    /\ shown = [s \in Sessions |-> {}]
    /\ desc = [s \in Sessions |-> "unset"]
    /\ create = [s \in Sessions |-> "unset"]
    /\ put = [s \in Sessions |-> "unset"]
    /\ parsed_content = [s \in Sessions |-> "unset"]
    /\ answer = [s \in Sessions |-> "unset"]
    /\ file_names = [s \in Sessions |-> {}]
    /\ selected_file = [s \in Sessions |-> NoFile]
    /\ expiration_seconds = [s \in Sessions |-> 0]
    /\ prev_creates = [s \in Sessions |-> 0]

\* How many times op occurs in a call log.
Count(log, op) == Cardinality({i \in 1..Len(log) : log[i] = op})

Log(s, op) == calls' = [calls EXCEPT ![s] = Append(@, op)]
Show(s, elems) == shown' = [shown EXCEPT ![s] = @ \cup elems]
Goto(s, p) == pc' = [pc EXCEPT ![s] = p]

\* A new script run starts: every local of the previous run is gone.
StartRender(s, newUi) ==
    /\ pc[s] \in EndPcs \cup {"idle"}
    /\ ui' = [ui EXCEPT ![s] = newUi]
    /\ pc' = [pc EXCEPT ![s] = "guard"]
    /\ calls' = [calls EXCEPT ![s] = <<>>]
    /\ shown' = [shown EXCEPT ![s] = {}]
    /\ prev_creates' = [prev_creates EXCEPT ![s] = Count(calls[s], "CREATE")]
    /\ desc' = [desc EXCEPT ![s] = "unset"]
    /\ create' = [create EXCEPT ![s] = "unset"]
    /\ put' = [put EXCEPT ![s] = "unset"]
    /\ parsed_content' = [parsed_content EXCEPT ![s] = "unset"]
    /\ answer' = [answer EXCEPT ![s] = "unset"]
    /\ file_names' = [file_names EXCEPT ![s] = {}]
    /\ selected_file' = [selected_file EXCEPT ![s] = NoFile]
    /\ expiration_seconds' = [expiration_seconds EXCEPT ![s] = 0]
    /\ UNCHANGED remote

\* The widget states one UI event can leave behind.  A widget can only be
\* used if the previous render drew it; a button is TRUE only in the render
\* its click triggered; the slider's value arrives with the form's submit.
Quiet(u) == [u EXCEPT !.event = "load", !.days = SliderDefault]
EventsOf(s) ==
    {Quiet(ui[s])}
    \cup {[Quiet(ui[s]) EXCEPT !.stage = n, !.event = "input"] :
            n \in IF pc[s] = "idle" THEN {} ELSE StageInputs}
    \cup {[Quiet(ui[s]) EXCEPT !.file = f, !.event = "input"] :
            f \in IF pc[s] = "idle" THEN {} ELSE FileNames \cup {NoFile}}
    \cup {[Quiet(ui[s]) EXCEPT !.question = q, !.event = "input"] :
            q \in IF "question_box" \in shown[s] THEN BOOLEAN ELSE {}}
    \cup {[ui[s] EXCEPT !.event = "submit", !.days = d] :
            d \in IF "url_form" \in shown[s] THEN Slider ELSE {}}
    \cup {[Quiet(ui[s]) EXCEPT !.event = "download"] :
            x \in IF "download_select" \in shown[s] THEN {0} ELSE {}}

UserEvent(s) == \E u \in EventsOf(s) : StartRender(s, u)

\* A session that only loads or reloads the page, the stage name left at
\* its default.
PageLoad(s) == StartRender(s, Quiet(ui[s]))

\* Where main goes once ensure_stage_exists has returned (lines 117-132).
AfterGuard(s) == IF ui[s].file # NoFile THEN "put_stream" ELSE "list_url"

\* ensure_stage_exists, lines 21-24: the lookup.
GuardCreatesAnyway(s) == "create"
GuardLookupOk(s) == AfterGuard(s)
GuardIgnoresLookupFailure(s) == AfterGuard(s)
GuardLookupFailed(s) == "create"

DescStage(s) ==
    /\ pc[s] = "guard"
    /\ Log(s, "DESC")
    /\ \/ /\ ui[s].stage \in stages
          /\ desc' = [desc EXCEPT ![s] = "ok"]
          /\ Goto(s, GuardLookupOk(s))
       \/ /\ desc' = [desc EXCEPT ![s] =
                         IF ui[s].stage \in stages THEN "transient" ELSE "absent"]
          /\ Goto(s, GuardLookupFailed(s))
    /\ UNCHANGED <<remote, ui, shown, create, uploadLocals, urlLocals, prev_creates>>

\* ensure_stage_exists, lines 26-34: the creation attempt.
GuardContinuesAfterFailure(s) == AfterGuard(s)
GuardRetriesLookup(s) == "guard"
GuardCreateFailed(s) == "stopped"

CreateStage(s) ==
    /\ pc[s] = "create"
    /\ Log(s, "CREATE")
    /\ \/ /\ ValidStageName(ui[s].stage)
          /\ ui[s].stage \notin stages
          /\ stages' = stages \cup {ui[s].stage}
          /\ create' = [create EXCEPT ![s] = "ok"]
          /\ Show(s, {"stage_created"})
          /\ Goto(s, AfterGuard(s))
       \/ /\ create' = [create EXCEPT ![s] =
                           IF ui[s].stage \in stages THEN "exists" ELSE "error"]
          /\ Show(s, {"stage_error"})
          /\ Goto(s, GuardCreateFailed(s))
          /\ UNCHANGED stages
    /\ UNCHANGED <<files, ui, desc, uploadLocals, urlLocals, prev_creates>>

\* main, lines 132-143 and 162-163: the upload.
UploadRetried(s) == "put_stream"
UploadFailed(s) == "list_url"
AsksWithoutQuestion(s) == "parse"
UploadDone(s) == IF ui[s].question THEN "parse" ELSE "list_url"

PutStream(s) ==
    /\ pc[s] = "put_stream"
    /\ Log(s, "PUT")
    /\ \/ /\ ui[s].stage \in stages
          /\ files' = [files EXCEPT ![ui[s].stage] = @ \cup {StoredName(ui[s].file)}]
          /\ put' = [put EXCEPT ![s] = "ok"]
          /\ Show(s, {"upload_success", "question_box"})
          /\ Goto(s, UploadDone(s))
       \/ /\ put' = [put EXCEPT ![s] = "error"]
          /\ Show(s, {"upload_error"})
          /\ Goto(s, UploadFailed(s))
          /\ UNCHANGED files
    /\ UNCHANGED <<stages, ui, guardRes, parsed_content, answer, urlLocals, prev_creates>>

\* parse_document, lines 36-59: what it returns and what it shows for each
\* outcome of the remote call.
ParseOutcomes == {"raise", "empty", "null", "text"}
ParseReturn(o) == IF o = "text" THEN "Text" ELSE "None"
ParseShows(o) ==
    IF o = "raise" THEN {"parse_error"}
    ELSE IF o = "empty" THEN {"no_content"} ELSE {}

\* main, lines 155-156: ai_complete is called with whatever parse_document returned.
AfterParse(content) == "complete"

ParseDocument(s) ==
    /\ pc[s] = "parse"
    /\ Log(s, "PARSE")
    /\ \E o \in ParseOutcomes :
          /\ parsed_content' = [parsed_content EXCEPT ![s] = ParseReturn(o)]
          /\ Show(s, ParseShows(o))
          /\ Goto(s, AfterParse(ParseReturn(o)))
    /\ UNCHANGED <<remote, ui, guardRes, put, answer, urlLocals, prev_creates>>

\* ai_complete, lines 61-93.
CompleteOutcomes == {"raise", "empty", "null", "text"}
CompleteReturn(o) ==
    IF o = "text" THEN "Text"
    ELSE IF o = "empty" THEN "NoResponse" ELSE "None"
CompleteShows(o) == IF o = "raise" THEN {"ai_error"} ELSE {}

\* main, lines 158-160: if answer
Truthy(a) == a \in {"Text", "NoResponse"}

AiComplete(s) ==
    /\ pc[s] = "complete"
    /\ Log(s, "COMPLETE")
    /\ \E o \in CompleteOutcomes :
          /\ answer' = [answer EXCEPT ![s] = CompleteReturn(o)]
          /\ Show(s, CompleteShows(o)
                     \cup IF Truthy(CompleteReturn(o)) THEN {"ai_response"} ELSE {})
    /\ Goto(s, "list_url")
    /\ UNCHANGED <<remote, ui, guardRes, put, parsed_content, urlLocals, prev_creates>>

\* main, lines 173-178 and 223-228: the displayed names of a listing.
DisplayNames(rows) == {StripPrefix(r) : r \in rows}

\* main, line 173: the LIST call is outside every try block.
ListUrlRaised(s) == "crashed"

\* main, lines 168-194 and 212-213.
ListUrl(s) ==
    /\ pc[s] = "list_url"
    /\ Log(s, "LIST")
    /\ \/ /\ Goto(s, ListUrlRaised(s))
          /\ UNCHANGED <<shown, file_names, selected_file>>
       \/ /\ ui[s].stage \in stages
          /\ LET rows == ListRows(ui[s].stage, files[ui[s].stage]) IN
             IF rows = {}
             THEN /\ Show(s, {"no_files_url"})
                  /\ Goto(s, "list_dl")
                  /\ UNCHANGED <<file_names, selected_file>>
             ELSE /\ file_names' = [file_names EXCEPT ![s] = DisplayNames(rows)]
                  /\ \E f \in DisplayNames(rows) :
                        selected_file' = [selected_file EXCEPT ![s] = f]
                  /\ Show(s, {"url_form"})
                  /\ Goto(s, IF ui[s].event = "submit" THEN "presign" ELSE "list_dl")
    /\ UNCHANGED <<remote, ui, guardRes, uploadLocals, expiration_seconds, prev_creates>>

\* main, lines 194-211.
Presign(s) ==
    /\ pc[s] = "presign"
    /\ expiration_seconds' = [expiration_seconds EXCEPT ![s] = ExpirationSeconds(ui[s].days)]
    /\ Log(s, "PRESIGN")
    /\ \/ Show(s, {"url_ok"})
       \/ Show(s, {"url_error"})
    /\ Goto(s, "list_dl")
    /\ UNCHANGED <<remote, ui, guardRes, uploadLocals, file_names, selected_file, prev_creates>>

\* main, lines 218-234 and 246-247.
ListDownload(s) ==
    /\ pc[s] = "list_dl"
    /\ Log(s, "LIST")
    /\ \/ /\ Goto(s, "crashed")
          /\ UNCHANGED <<shown, file_names, selected_file>>
       \/ /\ ui[s].stage \in stages
          /\ LET rows == ListRows(ui[s].stage, files[ui[s].stage]) IN
             IF rows = {}
             THEN /\ Show(s, {"no_files_download"})
                  /\ Goto(s, "done")
                  /\ UNCHANGED <<file_names, selected_file>>
             ELSE /\ file_names' = [file_names EXCEPT ![s] = DisplayNames(rows)]
                  /\ \E f \in DisplayNames(rows) :
                        selected_file' = [selected_file EXCEPT ![s] = f]
                  /\ Show(s, {"download_select"})
                  /\ Goto(s, IF ui[s].event = "download" THEN "get_stream" ELSE "done")
    /\ UNCHANGED <<remote, ui, guardRes, uploadLocals, expiration_seconds, prev_creates>>

\* main, lines 234-245.
GetStream(s) ==
    /\ pc[s] = "get_stream"
    /\ Log(s, "GET")
    /\ \/ Show(s, {"download_button"})
       \/ Show(s, {"download_error"})
    /\ Goto(s, "done")
    /\ UNCHANGED <<remote, ui, guardRes, uploadLocals, urlLocals, prev_creates>>

Step(s) ==
    \/ UserEvent(s)
    \/ DescStage(s)
    \/ CreateStage(s)
    \/ PutStream(s)
    \/ ParseDocument(s)
    \/ AiComplete(s)
    \/ ListUrl(s)
    \/ Presign(s)
    \/ ListDownload(s)
    \/ GetStream(s)

\* One browser session.
Next == Step(1)

Spec == Init /\ [][Next]_vars

RaceStep(s) ==
    \/ PageLoad(s)
    \/ DescStage(s)
    \/ CreateStage(s)
    \/ ListUrl(s)
    \/ ListDownload(s)

\* NumSessions browser sessions loading the page concurrently.
NextRace == \E s \in Sessions : RaceStep(s)

SpecRace == Init /\ [][NextRace]_vars

(***************************************************************************)
(* Properties.                                                             *)
(***************************************************************************)
Issued(s, op) == Count(calls[s], op) > 0
Pos(s, op) == CHOOSE i \in 1..Len(calls[s]) :
                  calls[s][i] = op /\ \A j \in 1..(i - 1) : calls[s][j] # op
Before(s, a, b) == Issued(s, a) /\ Issued(s, b) /\ Pos(s, a) < Pos(s, b)
GuardReturned(s) == desc[s] = "ok" \/ create[s] = "ok"
LookupFailed(s) == desc[s] \in {"absent", "transient"}
CreateFailed(s) == create[s] \in {"exists", "error"}
ListingTaken(s) ==
    shown[s] \cap {"url_form", "no_files_url", "download_select", "no_files_download"} # {}
Ops == {"DESC", "CREATE", "PUT", "PARSE", "COMPLETE", "LIST", "PRESIGN", "GET"}

\* C1: when parse_document returns None, ai_complete is not invoked in that
\* render and no 'AI Response' panel is rendered.
C1_AbsentTextIsNeverAnswered ==
    \A s \in Sessions :
        parsed_content[s] = "None" =>
            ~Issued(s, "COMPLETE") /\ "ai_response" \notin shown[s]

\* C2: no upload, listing or extraction call is issued (or about to be
\* issued) unless ensure_stage_exists returned normally in this render, after
\* a successful DESC or a successful CREATE, and the named stage then exists.
C2_StageExistsBeforeUse ==
    \A s \in Sessions :
        (\/ pc[s] \in {"put_stream", "parse", "list_url", "list_dl"}
         \/ Issued(s, "PUT") \/ Issued(s, "LIST") \/ Issued(s, "PARSE"))
        => /\ GuardReturned(s)
           /\ ui[s].stage \in stages
           /\ \A op \in {"PUT", "LIST", "PARSE"} :
                 Issued(s, op) => Before(s, "DESC", op)

C2_Witness ==
    \E s \in Sessions :
        /\ create[s] = "ok"
        /\ Issued(s, "PUT") /\ Issued(s, "PARSE") /\ Issued(s, "LIST")

C4_TerminalFailureHalts ==
    \A s \in Sessions :
        (LookupFailed(s) /\ CreateFailed(s))
        => /\ pc[s] = "stopped"
           /\ "stage_error" \in shown[s]
           /\ calls[s] = <<"DESC", "CREATE">>

C4_Witness ==
    \E s \in Sessions :
        desc[s] = "absent" /\ create[s] = "error" /\ pc[s] = "stopped"

\* C5: once put_stream has succeeded for the file named N, every listing
\* taken later in the same render displays N among the stripped names.
C5_UploadedFileIsListed ==
    \A s \in Sessions :
        (put[s] = "ok" /\ ListingTaken(s)) => ui[s].file \in file_names[s]

C5_Witness ==
    \E s \in Sessions :
        /\ put[s] = "ok"
        /\ "download_select" \in shown[s]
        /\ ui[s].file = <<"dir", "/", "notes.txt">>
        /\ Cardinality(file_names[s]) = 2

\* C6: the expiration passed to GET_PRESIGNED_URL is the slider's value d
\* times 86400 seconds, and d is an integer of 1..7.
C6_ExpirationIsDaysTimes86400 ==
    \A s \in Sessions :
        (pc[s] = "presign" \/ Issued(s, "PRESIGN"))
        => /\ ui[s].days \in 1..7
           /\ Issued(s, "PRESIGN") =>
                 /\ expiration_seconds[s] = ui[s].days * 86400
                 /\ ui[s].days = 1 => expiration_seconds[s] = 86400
                 /\ ui[s].days = 3 => expiration_seconds[s] = 259200
                 /\ ui[s].days = 7 => expiration_seconds[s] = 604800

C6_Witness ==
    \E s \in Sessions :
        Issued(s, "PRESIGN") /\ ui[s].days = 7 /\ expiration_seconds[s] = 604800

\* C7 as stated: a render issues at most one remote call.
C7_AtMostOneCallPerRender ==
    \A s \in Sessions : Len(calls[s]) <= 1

\* C7 amended: a render issues every remote call at most once, except LIST,
\* which it issues at most twice (once per tab); no call is repeated or
\* retried, GET_PRESIGNED_URL and get_stream never share a render, and so a
\* render issues at most 8 remote calls.
C7_EachCallAtMostOncePerRender ==
    \A s \in Sessions :
        /\ \A op \in Ops : Count(calls[s], op) <= IF op = "LIST" THEN 2 ELSE 1
        /\ \A i \in 1..Len(calls[s]) : calls[s][i] \in Ops
        /\ ~(Issued(s, "PRESIGN") /\ Issued(s, "GET"))
        /\ Len(calls[s]) <= 8

C7_Witness ==
    \E s \in Sessions :
        /\ Len(calls[s]) = 7
        /\ Count(calls[s], "LIST") = 2
        /\ Issued(s, "CREATE") /\ Issued(s, "COMPLETE")

\* C8: a failure of a remote call other than stage provisioning never
\* propagates out of main; the remaining panels are still rendered.
C8_NoFailureLeavesMain ==
    \A s \in Sessions : pc[s] # "crashed"

\* C9: PARSE_DOCUMENT is issued only after the Guard returned and put_stream
\* succeeded in the same render, and only with a question; AI_COMPLETE only
\* after PARSE_DOCUMENT has returned; neither after a failed put_stream.
C9_UploadPanelOrder ==
    \A s \in Sessions :
        /\ Issued(s, "PARSE") =>
              /\ GuardReturned(s) /\ put[s] = "ok" /\ ui[s].question
              /\ Before(s, "DESC", "PUT") /\ Before(s, "PUT", "PARSE")
        /\ Issued(s, "COMPLETE") =>
              /\ parsed_content[s] # "unset"
              /\ Before(s, "PARSE", "COMPLETE")
        /\ put[s] = "error" => ~Issued(s, "PARSE") /\ ~Issued(s, "COMPLETE")
        /\ pc[s] = "complete" => parsed_content[s] # "unset"

C9_Witness ==
    \E s \in Sessions :
        Issued(s, "COMPLETE") /\ create[s] = "ok" /\ answer[s] = "Text"

\* C10: with sessions racing on one absent stage, a session whose CREATE
\* fails is halted with the stage error, also when the stage exists by then
\* because another session created it; the session whose CREATE succeeded
\* goes on, and it is the only one.
C10_RaceLoserHalts ==
    \A s \in Sessions :
        /\ CreateFailed(s) =>
              /\ pc[s] = "stopped" /\ "stage_error" \in shown[s]
              /\ ~Issued(s, "LIST")
        /\ create[s] = "exists" => ui[s].stage \in stages
        /\ create[s] = "ok" =>
              /\ pc[s] \in {"list_url", "list_dl", "done", "crashed"}
              /\ \A t \in Sessions \ {s} :
                    ui[t].stage = ui[s].stage => create[t] # "ok"

C10_Witness ==
    \E s, t \in Sessions :
        /\ s # t /\ ui[s].stage = ui[t].stage
        /\ desc[s] = "absent" /\ desc[t] = "absent"
        /\ create[s] = "ok" /\ pc[s] = "done"
        /\ create[t] = "exists" /\ pc[t] = "stopped"

====
